---- MODULE Spec2Model ----
(***************************************************************************)
(* Turn orchestration of moentreprise: SimpleOrchestrator                  *)
(* (src/src/simple_orchestrator.py), the PhasedOrchestrator overlay        *)
(* (src/src/phased_orchestrator.py) and the showcase handlers of the web   *)
(* layer (src/examples/web_demo.py).                                       *)
(*                                                                         *)
(* Python's None is the string "None".  A coroutine runs atomically from   *)
(* one await to the next; every action below is one such stretch.          *)
(***************************************************************************)
EXTENDS Integers, Sequences, FiniteSets, TLC

\* ------------------------------------------------------------------------
\* Bounds of the model
\* ------------------------------------------------------------------------
\* Largest max_turns a conversation is configured with.
MaxTurnsBound == 2
\* Largest interview_questions value beyond the length of question_list.
ExtraQuestions == 2
\* Most audio fragments one exchange streams.
MaxChunks == 1
\* Longest message stream of the stream-level specification.
MaxStreamLen == 4
\* Longest message stream of the selection-decoding specification.
MaxSelectLen == 3
\* Human inputs and stop requests the open environment makes in one conversation.
MaxInputs == 1
\* Largest interview_questions value of the open specification.
MaxQuestionsOpen == 2
\* Human turns are explored while current_turn < max_turns + TurnSlack.
TurnSlack == 2

\* ------------------------------------------------------------------------
\* Program constants
\* ------------------------------------------------------------------------
\* len(self.question_list)
QuestionListLen == 6
\* max_retries of the empty-response loop
MaxRetries == 2
\* max_timeout of the human gate, in polls of 0.5 s (30 s)
MaxTimeoutPolls == 60
chunk_duration_ms == 430
safety_buffer_ms == 1000

None == "None"

\* Persona lists: simple_example.py's three personas; web_demo.py's list
\* without Casey and Sam, who take the same branches as Jordan everywhere.
SimplePersonas == <<"Professor", "Student", "Assistant">>
PhasedPersonas == <<"Marcus", "Sarah", "Alex", "Jordan", "Maya", "Sophie">>

ideation_order == <<"Maya", "Alex">>

\* ------------------------------------------------------------------------
\* One exchange's message stream (_get_persona_response, the async-for loop)
\* ------------------------------------------------------------------------
\* Abstract values of a function call's "arguments" string.  A value >= -1
\* stands for '{"speaker_index": "<value>"}'.
ArgEmpty == 0 - 100
ArgNoKey == 0 - 101
ArgBad == 0 - 102

Msg(t, n, a, p) == [t |-> t, n |-> n, a |-> a, p |-> p]

\* A speaker list with one entry that names nobody.
SpeakersWithStranger(ps) == Append(Append(ps, "Human"), "Stranger")

_get_available_speakers(ps) == Append(ps, "Human")

\* json.loads of the accumulated fragments: the value parses only when the
\* fragments of one two-part value are all there, in order.
ParseStreaming(sargs) ==
    IF Len(sargs) = 2 /\ sargs[1][1] = sargs[2][1] /\ sargs[1][2] = 1 /\ sargs[2][2] = 2
    THEN sargs[1][1]
    ELSE ArgBad

\* A successor without wrap-around: past the last persona comes the human.
SuccessorWithoutWrap(cpi, ps) == IF cpi + 1 < Len(ps) THEN ps[cpi + 2] ELSE "Human"

SequentialFallback(cpi, ps) == ps[((cpi + 1) % Len(ps)) + 1]

\* A decoding that reads speaker_index as a 1-based position.
DecodeOneBased(a, sargs, cpi, ps) ==
    IF a >= 1 /\ a <= Len(ps) + 1 THEN Append(ps, "Human")[a] ELSE ps[1]

\* Lines 469-501: decoding of a completed select_next_speaker call.
DecodeSelection(a, sargs, cpi, ps) ==
    LET arguments == IF a = ArgEmpty
                     THEN (IF sargs # <<>> THEN ParseStreaming(sargs) ELSE ArgNoKey)
                     ELSE a
        speakers == _get_available_speakers(ps)
    IN  IF arguments >= 0 /\ arguments < Len(speakers)
        THEN speakers[arguments + 1]
        ELSE SequentialFallback(cpi, ps)

StreamInit(vibeRunning) ==
    [name |-> "", call_name |-> "", sargs |-> <<>>, sel |-> None,
     text |-> FALSE, chunks |-> 0,
     vibe_running |-> vibeRunning, vibe_starts |-> 0, li_posts |-> 0, vid_posts |-> 0,
     status |-> "reading", done_seen |-> FALSE, after_done |-> 0]

\* The branches a message reaches after the msg_type tests for deltas and
\* function-call events have failed (lines 517-638): they test the local
\* `name` of the last function call BEFORE the message type.
NameBranches(st, m) ==
    IF st.name = "vibe_code"
    THEN IF st.vibe_running THEN st
         ELSE [st EXCEPT !.vibe_running = TRUE, !.vibe_starts = @ + 1]
    ELSE IF st.name = "post_to_linkedin"
    THEN [st EXCEPT !.li_posts = @ + 1]
    ELSE IF st.name = "post_video_to_linkedin"
    THEN [st EXCEPT !.vid_posts = @ + 1]
    ELSE IF m.t = "done" THEN [st EXCEPT !.status = "done"]
    ELSE IF m.t = "error" THEN [st EXCEPT !.status = "raised"]
    ELSE st

\* One iteration of `async for message in websocket` (lines 411-638).
\* "vibe_exit" is not a message: it is the executor thread's `finally`
\* (line 531) running between two messages.
ProcessMessage(st, m, cpi, ps) ==
    LET s0 == [st EXCEPT !.done_seen = @ \/ (m.t = "done"),
                         !.after_done = IF st.done_seen /\ m.t # "vibe_exit" THEN @ + 1 ELSE @]
    IN  IF m.t = "vibe_exit" THEN [st EXCEPT !.vibe_running = FALSE]
        ELSE IF m.t = "audio" THEN [s0 EXCEPT !.chunks = @ + 1]
        ELSE IF m.t = "text" THEN [s0 EXCEPT !.text = TRUE]
        ELSE IF m.t = "item_added"
        THEN (IF m.n # None THEN [s0 EXCEPT !.name = m.n] ELSE s0)
        ELSE IF m.t = "fc_done"
        THEN LET s1 == [s0 EXCEPT !.name = m.n]
             IN  IF m.n = "select_next_speaker"
                 THEN [s1 EXCEPT !.sel = DecodeSelection(m.a, st.sargs, cpi, ps)]
                 ELSE s1
        ELSE IF m.t = "fc_delta"
        THEN LET s1 == IF m.p > 0 /\ st.call_name = "select_next_speaker"
                       THEN [s0 EXCEPT !.sargs = Append(@, <<m.a, m.p>>)]
                       ELSE s0
             IN  [s1 EXCEPT !.call_name = IF m.n # None THEN m.n ELSE @]
        ELSE NameBranches(s0, m)

\* The loop over a finite stream; it stops at the first break or raise.
RECURSIVE RunStream(_, _, _, _)
RunStream(st, msgs, cpi, ps) ==
    IF msgs = <<>> \/ st.status # "reading" THEN st
    ELSE RunStream(ProcessMessage(st, Head(msgs), cpi, ps), Tail(msgs), cpi, ps)

\* ------------------------------------------------------------------------
\* The streams the engine-level exchange draws from
\* ------------------------------------------------------------------------
ContentStreams ==
    { t \o a : t \in {<<>>, <<Msg("text", None, 0, 0)>>},
               a \in {<<>>} \cup { [i \in 1..k |-> Msg("audio", None, 0, 0)] : k \in 1..MaxChunks } }

\* A completed select_next_speaker call: empty arguments, or an index from
\* 0 (first persona) to n (Human) and n + 1 (out of range).
SelectCalls(n) ==
    { <<Msg("fc_done", "select_next_speaker", a, 0)>> : a \in {ArgEmpty} \cup (0..(n + 1)) }

\* The specialised tool a persona is offered (lines 327-334), as the call's
\* output_item.added event followed by the next message of the response.
ToolOf(persona) ==
    IF persona = "Alex" THEN "vibe_code"
    ELSE IF persona = "Sophie" THEN "post_to_linkedin"
    ELSE IF persona = "Marine" THEN "post_video_to_linkedin"
    ELSE IF persona = "Maya" THEN "capture_screenshot"
    ELSE None

ToolCalls(persona) ==
    IF ToolOf(persona) = None THEN {}
    ELSE { <<Msg("item_added", ToolOf(persona), 0, 0), Msg("other", None, 0, 0)>> }

Terminals == { <<Msg("done", None, 0, 0)>>, <<Msg("error", None, 0, 0)>>, <<>> }

EngineStreams(persona, n) ==
    LET S == {<<>>} \cup SelectCalls(n)
        W == {<<>>} \cup ToolCalls(persona)
    IN  { c \o s \o w \o t : c \in ContentStreams, s \in S, w \in W, t \in Terminals }
        \cup { c \o w \o s \o t : c \in ContentStreams, s \in S, w \in W, t \in Terminals }

\* ------------------------------------------------------------------------
\* State
\* ------------------------------------------------------------------------
VARIABLES
    kind,                    \* "simple": SimpleOrchestrator; "phased": PhasedOrchestrator
    scenario,                \* "open": any environment; "reliable": exchanges succeed with
                             \* text and audio, the human answers; "delivered": every stream has its done or
                             \* error; "web": the web demo's script; "ideation": no audio
                             \* fragments; "stream": one exchange
    personas,                \* names of self.personas, in order
    max_turns,
    interview_questions,     \* the constructor's argument
    is_running,
    current_turn,
    current_persona_index,
    current_speaker,
    is_speaking,
    is_human_turn,
    selected_next_speaker,
    conversation_history,    \* sequence of [speaker, text]
    phase,
    questions_left,
    asked_questions,         \* len(self.asked_questions)
    interview_notes,
    human_response_received,
    pending_human_response,
    pending_human_audio,
    persona_chunks,          \* AudioChunkManager.persona_chunks, -1: no key yet
    vibe_started,            \* a vibe_code executor thread was started
    complete_notified,       \* calls of on_conversation_complete
    inputs_left,             \* human inputs and stop requests the environment may still make
    pc,                      \* per task: the await it is suspended at
    loc,                     \* per task: locals of the running turn
    website_showcased,       \* web_demo.py's module-level flag
    hpc,                     \* per website_working_perfectly handler: its position
    dpc,                     \* per delayed_flag_set thread: its position
    alex_instructions,       \* Alex's persona.instructions: "build" or "showcase"
    audio_call,              \* a call of add_human_audio: "none", or "stored" between
                             \* its lines 1006 and 1009
    marcus_instructions,     \* Marcus's persona.instructions: "configured", "after_maya",
                             \* "showcase_response" or "closing"
    strm                     \* the stream-level specification's exchange:
                             \* [st, read, rest, outcome]

vars == <<kind, scenario, personas, max_turns, interview_questions, is_running, current_turn,
          current_persona_index, current_speaker, is_speaking, is_human_turn,
          selected_next_speaker, conversation_history, phase, questions_left,
          asked_questions, interview_notes, human_response_received,
          pending_human_response, pending_human_audio, persona_chunks, vibe_started,
          complete_notified, inputs_left, pc, loc, website_showcased, hpc, dpc,
          alex_instructions, marcus_instructions, audio_call, strm>>

configVars == <<kind, scenario, personas, max_turns, interview_questions>>
humanVars == <<human_response_received, pending_human_response, pending_human_audio>>
webVars == <<website_showcased, hpc, dpc>>
interviewVars == <<questions_left, asked_questions, interview_notes>>

Tasks == {"main", "sc1", "sc2"}
Handlers == {"h1", "h2"}
ShowcaseOf(h) == IF h = "h1" THEN "sc1" ELSE "sc2"

NoStream == StreamInit(FALSE)
NoExchange == [st |-> NoStream, read |-> <<>>, rest |-> <<>>, outcome |-> "none",
               awaiting |-> FALSE]
NoLoc == [persona |-> None, retry |-> 0, polls |-> 0, wait_ms |-> 0, streamed |-> 0,
          frames |-> 0,
          st |-> NoStream, said |-> "", failed |-> FALSE]

Entry(speaker, text) == [speaker |-> speaker, text |-> text]
Last(h) == h[Len(h)]

\* PhasedOrchestrator._idx, 0-based; -1 where next() would raise StopIteration.
_idx(name) ==
    IF \E i \in 1..Len(personas) : personas[i] = name
    THEN (CHOOSE i \in 1..Len(personas) : personas[i] = name) - 1
    ELSE 0 - 1

PersonaAt(i) == personas[i + 1]

Truthy(x) == x # None /\ x # ""

\* ------------------------------------------------------------------------
\* Returning: _end_conversation, and the frames a finished chain unwinds
\* ------------------------------------------------------------------------
\* _start_human_turn_once, lines 22-29: they run when the wrapped
\* _start_human_turn returns, which is when the chain of turns it started
\* (through its own call of _move_to_next_persona) has returned.
RECURSIVE Repeat(_, _)
Repeat(x, k) == IF k = 0 THEN <<>> ELSE <<x>> \o Repeat(x, k - 1)

UnwoundNotes(t, ph) ==
    IF kind = "phased" /\ ph = "interview" /\ Truthy(pending_human_response)
    THEN interview_notes \o Repeat(pending_human_response, loc[t].frames)
    ELSE interview_notes

UnwoundSelection(t, ph, ql, sel) ==
    IF kind = "phased" /\ ph = "interview" /\ ql > 0 /\ loc[t].frames > 0
    THEN "Sarah"
    ELSE sel

\* The task's chain of calls returns with phase ph, counter ql, selection sel.
ChainReturns(t, ph, ql, sel) ==
    /\ pc' = [pc EXCEPT ![t] = "returned"]
    /\ loc' = [loc EXCEPT ![t] = NoLoc]
    /\ interview_notes' = UnwoundNotes(t, ph)
    /\ selected_next_speaker' = UnwoundSelection(t, ph, ql, sel)
    /\ phase' = ph
    /\ questions_left' = ql

\* SimpleOrchestrator._end_conversation
_end_conversation ==
    /\ is_running' = FALSE
    /\ is_speaking' = FALSE
    /\ current_speaker' = None
    /\ is_human_turn' = FALSE
    /\ complete_notified' = complete_notified + 1

\* ------------------------------------------------------------------------
\* The turn loop
\* ------------------------------------------------------------------------
\* start_conversation_async up to its call of _start_persona_turn
start_conversation_async ==
    /\ pc["main"] = "idle"
    /\ ~is_running
    /\ is_running' = TRUE
    /\ current_turn' = 0
    /\ current_persona_index' = 0
    /\ pc' = [pc EXCEPT !["main"] = "start_persona"]
    /\ UNCHANGED <<configVars, audio_call, marcus_instructions, alex_instructions, current_speaker, is_speaking, is_human_turn,
                   selected_next_speaker, conversation_history, phase, interviewVars,
                   humanVars, persona_chunks, vibe_started, complete_notified,
                   inputs_left, loc, webVars, strm>>

\* _start_persona_turn (and its replacement _start_persona_turn_clean) from
\* the top to the first await of the exchange.
TurnLimitReached == current_turn >= max_turns

\* _start_persona_turn_clean, lines 98-108: Marcus's turn after Maya's in
\* the ideation phase assigns new text to persona.instructions
\* (awaiting_maya_followup is never set).
OverrideAfterMaya(persona) ==
    /\ kind = "phased" /\ persona = "Marcus" /\ phase = "ideation"
    /\ conversation_history # <<>>
    /\ Last(conversation_history).speaker = "Maya"

_start_persona_turn(t) ==
    /\ pc[t] = "start_persona"
    /\ IF ~is_running
       THEN /\ ChainReturns(t, phase, questions_left, selected_next_speaker)
            /\ UNCHANGED <<is_running, is_speaking, current_speaker, is_human_turn,
                           complete_notified, current_turn, asked_questions,
                           marcus_instructions>>
       ELSE IF TurnLimitReached
       THEN /\ _end_conversation
            /\ ChainReturns(t, phase, questions_left, selected_next_speaker)
            /\ UNCHANGED <<current_turn, asked_questions, marcus_instructions>>
       ELSE LET persona == PersonaAt(current_persona_index)
                asking == kind = "phased" /\ persona = "Sarah" /\ phase = "interview"
            IN  /\ current_speaker' = persona
                /\ marcus_instructions' = IF OverrideAfterMaya(persona)
                                          THEN "after_maya" ELSE marcus_instructions
                /\ is_speaking' = TRUE
                /\ current_turn' = current_turn + 1
                /\ asked_questions' = IF asking /\ asked_questions < QuestionListLen
                                      THEN asked_questions + 1 ELSE asked_questions
                /\ questions_left' = IF asking /\ asked_questions >= QuestionListLen
                                     THEN 0 ELSE questions_left
                /\ pc' = [pc EXCEPT ![t] = "exchange"]
                /\ loc' = [loc EXCEPT ![t] = [@ EXCEPT !.persona = persona, !.retry = 0,
                                                       !.polls = 0, !.wait_ms = 0,
                                                       !.streamed = 0]]
                /\ UNCHANGED <<is_running, is_human_turn, complete_notified,
                               interview_notes, selected_next_speaker, phase>>
    /\ UNCHANGED <<configVars, audio_call, alex_instructions, current_persona_index, conversation_history,
                   humanVars, persona_chunks, vibe_started, inputs_left, webVars, strm>>

\* websockets.connect raising before any message is read.
ConnectFailed == <<Msg("connect_failed", None, 0, 0)>>

\* The web scenario: every response has text and ends with response.done; the
\* persona hands over to Alex or selects nobody, and may call its tool.
WebStreams(persona) ==
    LET c == <<Msg("text", None, 0, 0)>>
        d == <<Msg("done", None, 0, 0)>>
        S == {<<>>, <<Msg("fc_done", "select_next_speaker", _idx("Alex"), 0)>>}
        W == {<<>>} \cup ToolCalls(persona)
    IN  { c \o s \o w \o d : s \in S, w \in W } \cup { c \o w \o s \o d : s \in S, w \in W }

OfferedStreams(persona) ==
    IF scenario = "web" THEN WebStreams(persona)
    ELSE EngineStreams(persona, Len(personas)) \cup {ConnectFailed}

\* The stream holds its terminal signal.
Delivered(s) == \E i \in 1..Len(s) : s[i].t \in {"done", "error"}

\* The ordered list of participants a persona may select from (the list of
\* _get_available_speakers) and the one after the persona at index cpi.
Participants(ps) == ps \o <<"Human">>
NextParticipant(cpi, ps) == Participants(ps)[((cpi + 1) % (Len(ps) + 1)) + 1]

\* Lines 640-650: the selection stored when the stream loop ends normally.
StoredSelection(r, cpi) ==
    IF r.sel # None THEN r.sel ELSE SequentialFallback(cpi, personas)

\* AudioChunkManager.calculate_wait_time, lines 54-60, on the tracker's count
\* for the persona.
calculate_wait_time(chunks) == chunks * chunk_duration_ms

\* _wait_for_audio_completion_async, lines 753-755
\* A wait that is skipped when no fragment was tracked.
WaitSkippedWithoutChunks(chunks) == chunks * chunk_duration_ms

WaitMs(chunks) == chunks * chunk_duration_ms + safety_buffer_ms

\* The text a persona speaks: Alex's follows the instructions the exchange
\* sent with its session configuration, which alex_showcase_speech replaces
\* by the showcase presentation.
Spoken(persona) ==
    IF persona = "Alex" /\ alex_instructions = "showcase" THEN "showcase" ELSE "said"

\* A turn that allows one retry more than max_retries.
ExchangeRetriedOnceMore(t, txt, hasAudio, chunks, streamed) ==
    LET persona == loc[t].persona
        retryAgain == kind = "simple" /\ txt = "" /\ ~hasAudio
                      /\ loc[t].retry + 1 <= MaxRetries + 1
        text == IF kind = "simple"
                THEN (IF txt = "" /\ ~hasAudio THEN "fallback" ELSE txt)
                ELSE (IF txt = "" THEN "fallback" ELSE txt)
    IN  IF retryAgain
        THEN /\ pc' = [pc EXCEPT ![t] = "exchange"]
             /\ loc' = [loc EXCEPT ![t] = [@ EXCEPT !.retry = @ + 1, !.st = NoStream,
                                                    !.said = "",
                                                    !.streamed = @ + streamed]]
             /\ UNCHANGED conversation_history
        ELSE /\ conversation_history' = Append(conversation_history, Entry(persona, text))
             /\ pc' = [pc EXCEPT ![t] = "audio_wait"]
             /\ loc' = [loc EXCEPT ![t] = [@ EXCEPT !.wait_ms = WaitMs(chunks), !.st = NoStream,
                                                    !.said = "",
                                                    !.streamed = @ + streamed,
                                                    !.failed = (txt = "greeting")]]

\* What _start_persona_turn does with the (text, audio) an exchange returned,
\* up to its next await: the retry pause or the audio wait.
\* txt: "said" or "showcase", "" (blank text) or "greeting" (line 671, the
\* return of the except clause: loc[t].failed records that the exchange
\* failed).  chunks is the tracker's count for the persona, streamed the
\* number of fragments the exchange forwarded to on_audio_chunk (lines
\* 422-433): loc[t].streamed adds them up over the turn.
ExchangeReturned(t, txt, hasAudio, chunks, streamed) ==
    LET persona == loc[t].persona
        retryAgain == kind = "simple" /\ txt = "" /\ ~hasAudio /\ loc[t].retry + 1 <= MaxRetries
        text == IF kind = "simple"
                THEN (IF txt = "" /\ ~hasAudio THEN "fallback" ELSE txt)
                ELSE (IF txt = "" THEN "fallback" ELSE txt)
    IN  IF retryAgain
        THEN /\ pc' = [pc EXCEPT ![t] = "exchange"]
             /\ loc' = [loc EXCEPT ![t] = [@ EXCEPT !.retry = @ + 1, !.st = NoStream,
                                                    !.said = "",
                                                    !.streamed = @ + streamed]]
             /\ UNCHANGED conversation_history
        ELSE /\ conversation_history' = Append(conversation_history, Entry(persona, text))
             /\ pc' = [pc EXCEPT ![t] = "audio_wait"]
             /\ loc' = [loc EXCEPT ![t] = [@ EXCEPT !.wait_ms = WaitMs(chunks), !.st = NoStream,
                                                    !.said = "",
                                                    !.streamed = @ + streamed,
                                                    !.failed = (txt = "greeting")]]

\* A payload that stays in its slot after it was sent.
PayloadKept(failed, payload) == payload

\* Lines 352-370: an exchange that connects sends the pending human audio,
\* if there is one, and clears the slot; one whose connect raises does not
\* get there.
PayloadAfterExchange(failed, payload) == IF failed THEN payload ELSE None

\* _get_persona_response: one exchange, from the connect to the return, or to
\* the point where the loop waits for a message that does not come.
_get_persona_response(t) ==
    /\ pc[t] = "exchange"
    /\ \E s \in OfferedStreams(loc[t].persona) :
         LET persona == loc[t].persona
             failed == s = ConnectFailed
             r == IF failed THEN NoStream
                  ELSE RunStream(StreamInit(FALSE), s, current_persona_index, personas)
             chunks == IF failed THEN persona_chunks
                       ELSE [persona_chunks EXCEPT ![persona] = r.chunks]
         IN  /\ scenario = "reliable" => (~failed /\ r.status = "done" /\ r.text /\ r.chunks > 0)
             /\ scenario = "delivered" => (~failed /\ Delivered(s))
             /\ scenario = "ideation" => r.chunks = 0
             /\ scenario = "turns" => r.sel # "Human"
             /\ scenario = "cycle" =>
                    /\ ~failed /\ r.status = "done" /\ r.chunks = 0
                    /\ r.sel = NextParticipant(current_persona_index, personas)
             /\ scenario \in {"gate", "stop", "race"} =>
                    (~failed /\ r.status = "done" /\ r.text /\ r.chunks = 0)
             /\ pending_human_audio' = PayloadAfterExchange(failed, pending_human_audio)
             /\ persona_chunks' = chunks
             /\ vibe_started' = (vibe_started \/ r.vibe_starts > 0)
             /\ IF ~failed /\ r.status = "reading"
                THEN /\ pc' = [pc EXCEPT ![t] = "blocked"]
                     /\ loc' = [loc EXCEPT ![t] = [@ EXCEPT !.st = r, !.said = Spoken(persona)]]
                     /\ UNCHANGED <<conversation_history, selected_next_speaker>>
                ELSE IF failed \/ r.status = "raised"
                THEN /\ ExchangeReturned(t, "greeting", FALSE, chunks[persona], r.chunks)
                     /\ UNCHANGED selected_next_speaker
                ELSE /\ ExchangeReturned(t, IF r.text THEN Spoken(persona) ELSE "", r.chunks > 0,
                                         chunks[persona], r.chunks)
                     /\ selected_next_speaker' = StoredSelection(r, current_persona_index)
    /\ UNCHANGED <<configVars, audio_call, marcus_instructions, alex_instructions, is_running, current_turn, current_persona_index,
                   current_speaker, is_speaking, is_human_turn, phase, interviewVars,
                   human_response_received, pending_human_response, complete_notified,
                   inputs_left, webVars, strm>>

\* The server closes the connection while the loop waits for a message:
\* normally (the async-for ends) or not (ConnectionClosedError, line 669).
ConnectionCloses(t) ==
    /\ pc[t] = "blocked"
    /\ \E ok \in BOOLEAN :
         LET r == loc[t].st
             persona == loc[t].persona
         IN  IF ok
             THEN /\ ExchangeReturned(t, IF r.text THEN loc[t].said ELSE "", r.chunks > 0,
                                      persona_chunks[persona], r.chunks)
                  /\ selected_next_speaker' = StoredSelection(r, current_persona_index)
             ELSE /\ ExchangeReturned(t, "greeting", FALSE, persona_chunks[persona], r.chunks)
                  /\ UNCHANGED selected_next_speaker
    /\ UNCHANGED <<configVars, audio_call, marcus_instructions, alex_instructions, is_running, current_turn, current_persona_index,
                   current_speaker, is_speaking, is_human_turn, phase, interviewVars,
                   humanVars, persona_chunks, vibe_started, complete_notified,
                   inputs_left, webVars, strm>>

\* ------------------------------------------------------------------------
\* Next-speaker resolution
\* ------------------------------------------------------------------------
Resolution(cpi, ph, sel, ql, go) == [cpi |-> cpi, phase |-> ph, sel |-> sel, ql |-> ql, go |-> go]

\* A resolution that consumes the selection but leaves the index where the
\* previous persona turn put it.
ResolveKeepsIndex(cpi, ph, sel, ql) ==
    Resolution(cpi, ph, None, ql, IF sel = "Human" THEN "human" ELSE "persona")

\* SimpleOrchestrator._move_to_next_persona, lines 770-802, on the values
\* the caller has reached: the selection is consumed and cleared.
SimpleResolve(cpi, ph, sel, ql) ==
    LET next_speaker == IF sel # None THEN sel ELSE personas[1]
    IN  Resolution(IF next_speaker # "Human" /\ _idx(next_speaker) >= 0
                   THEN _idx(next_speaker) ELSE cpi,
                   ph, None, ql,
                   IF next_speaker = "Human" THEN "human" ELSE "persona")

\* The ideation branch below its hard rule, lines 270-296: a stored selection
\* is followed; without one the ideation order decides.
IdeationOrderResolve(ispeaker, sel, cpi, ql) ==
    IF Truthy(sel)
    THEN (IF _idx(sel) >= 0
          THEN Resolution(_idx(sel), "ideation", None, ql, "persona")
          ELSE Resolution(cpi, "ideation", None, ql, "raise"))
    ELSE IF ispeaker = ideation_order[1]
    THEN Resolution(_idx(ideation_order[2]), "ideation", sel, ql, "persona")
    ELSE IF ispeaker = ideation_order[Len(ideation_order)]
    THEN Resolution(cpi, "complete", sel, ql, "end")
    ELSE IF ispeaker = "Marcus"
    THEN Resolution(_idx("Alex"), "ideation", sel, ql, "persona")
    ELSE Resolution(cpi, "ideation", sel, ql, "super")

\* The ideation branch with the hard rule left out: Maya's selection decides.
SelectionDecidesAfterMaya(ispeaker, sel, cpi, ql) ==
    IdeationOrderResolve(ispeaker, sel, cpi, ql)

\* The ideation branch, lines 257-296: after Maya the next speaker is Marcus
\* and the selection is dropped.
IdeationResolve(ispeaker, sel, cpi, ql) ==
    IF ispeaker = "Maya"
    THEN Resolution(_idx("Marcus"), "ideation", None, ql, "persona")
    ELSE IdeationOrderResolve(ispeaker, sel, cpi, ql)

\* PhasedOrchestrator._move_to_next_persona, lines 218-364.
\* go: "persona" / "human" the turn it starts, "end" _end_conversation,
\* "super" the call of SimpleOrchestrator._move_to_next_persona,
\* "raise" _idx raising on a name that is no persona.
PhasedResolve ==
    LET cpi == current_persona_index
        sel == selected_next_speaker
        ql == questions_left
        speaker == IF conversation_history # <<>>
                   THEN Last(conversation_history).speaker
                   ELSE IF current_speaker # None THEN current_speaker ELSE PersonaAt(cpi)
        ispeaker == PersonaAt(cpi)
    IN  IF phase = "greeting"
        THEN Resolution(_idx("Sarah"), "interview", sel, ql, "persona")
        ELSE IF phase = "interview"
        THEN IF speaker = "Sarah" THEN Resolution(cpi, phase, "Sarah", ql, "human")
             ELSE IF speaker = "Human"
             THEN (IF ql - 1 > 0
                   THEN Resolution(_idx("Sarah"), phase, sel, ql - 1, "persona")
                   ELSE Resolution(_idx("Sarah"), "farewell", sel, ql - 1, "persona"))
             ELSE Resolution(cpi, phase, sel, ql, "super")
        ELSE IF phase = "ideation_prep"
        THEN Resolution(_idx(ideation_order[1]), "ideation", sel, ql, "persona")
        ELSE IF phase = "ideation"
        THEN IdeationResolve(ispeaker, sel, cpi, ql)
        ELSE IF phase = "farewell"
        THEN IF speaker = "Sarah"
             THEN Resolution(_idx("Marcus"), "ideation_prep", sel, ql, "persona")
             ELSE Resolution(cpi, phase, sel, ql, "super")
        ELSE IF phase = "showcase"
        THEN IF speaker = "Alex" THEN Resolution(_idx("Marcus"), phase, sel, ql, "persona")
             ELSE IF speaker = "Marcus"
             THEN Resolution(_idx("Sophie"), "marketing", sel, ql, "persona")
             ELSE Resolution(cpi, phase, sel, ql, "super")
        ELSE IF phase = "marketing"
        THEN IF speaker = "Sophie"
             THEN Resolution(_idx("Marcus"), "closing", sel, ql, "persona")
             ELSE Resolution(cpi, phase, sel, ql, "super")
        ELSE IF phase = "closing"
        THEN IF speaker = "Marcus" THEN Resolution(cpi, "complete", sel, ql, "end")
             ELSE Resolution(cpi, phase, sel, ql, "super")
        ELSE Resolution(cpi, phase, sel, ql, "super")

\* The resolution step a finished turn runs: after the audio wait (line 305
\* / 163), after the error handler's pause (line 936) or at the end of the
\* human turn (line 992).
MovePcs == {"audio_wait", "error_wait", "human_done"}

\* An exception of the step ("raise") inside the try of the turn (line 305)
\* is caught at lines 307-309 and goes to _handle_persona_error; raised in
\* the handler's own call (line 936) it is outside every try of that frame
\* and, the state being the same for each enclosing handler, leaves the
\* chain ("raised_out").

\* Lines 310-343: the showcase rule after Alex and the marketing rule after
\* Sophie assign new text to the instructions of the persona named Marcus.
InstructionsAfterResolve ==
    LET speaker == IF conversation_history # <<>>
                   THEN Last(conversation_history).speaker
                   ELSE IF current_speaker # None THEN current_speaker
                   ELSE PersonaAt(current_persona_index)
    IN  IF kind = "phased" /\ phase = "showcase" /\ speaker = "Alex"
        THEN "showcase_response"
        ELSE IF kind = "phased" /\ phase = "marketing" /\ speaker = "Sophie"
        THEN "closing"
        ELSE marcus_instructions

_move_to_next_persona(t) ==
    /\ pc[t] \in MovePcs
    /\ marcus_instructions' = InstructionsAfterResolve
    /\ LET viaSuper == kind = "simple" \/ PhasedResolve.go = "super"
           r == IF kind = "simple"
                THEN SimpleResolve(current_persona_index, phase, selected_next_speaker,
                                   questions_left)
                ELSE IF PhasedResolve.go = "super"
                THEN SimpleResolve(PhasedResolve.cpi, PhasedResolve.phase,
                                   PhasedResolve.sel, PhasedResolve.ql)
                ELSE PhasedResolve
       IN  /\ current_persona_index' = r.cpi
           /\ IF r.go = "end"
              THEN /\ _end_conversation
                   /\ ChainReturns(t, r.phase, r.ql, r.sel)
              ELSE /\ is_speaking' = IF viaSuper THEN FALSE ELSE is_speaking
                   /\ current_speaker' = IF viaSuper THEN None ELSE current_speaker
                   /\ is_human_turn' = IF viaSuper THEN FALSE ELSE is_human_turn
                   /\ phase' = r.phase
                   /\ questions_left' = r.ql
                   /\ selected_next_speaker' = r.sel
                   /\ pc' = [pc EXCEPT ![t] =
                               IF r.go = "human" THEN "start_human"
                               ELSE IF r.go = "persona" THEN "start_persona"
                               ELSE IF pc[t] = "audio_wait" THEN "handle_error"
                               ELSE "raised_out"]
                   /\ loc' = [loc EXCEPT ![t] = [@ EXCEPT !.wait_ms = 0, !.retry = 0, !.streamed = 0,
                                                          !.failed = FALSE]]
                   /\ UNCHANGED <<is_running, complete_notified, interview_notes>>
    /\ UNCHANGED <<configVars, audio_call, alex_instructions, current_turn, conversation_history,
                   asked_questions,
                   humanVars, persona_chunks, vibe_started, inputs_left, webVars, strm>>

\* _handle_persona_error up to its one-second pause (lines 919-935)
_handle_persona_error(t) ==
    /\ pc[t] = "handle_error"
    /\ is_speaking' = FALSE
    /\ current_speaker' = None
    /\ conversation_history' = Append(conversation_history, Entry(loc[t].persona, "error"))
    /\ pc' = [pc EXCEPT ![t] = "error_wait"]
    /\ UNCHANGED <<configVars, audio_call, marcus_instructions, alex_instructions, is_running, current_turn, current_persona_index,
                   is_human_turn, selected_next_speaker, phase, interviewVars, humanVars,
                   persona_chunks, vibe_started, complete_notified, inputs_left, loc,
                   webVars, strm>>

\* ------------------------------------------------------------------------
\* The human turn gate
\* ------------------------------------------------------------------------
\* _start_human_turn, lines 938-951.  In the phased variant the turn runs
\* inside the wrapper _start_human_turn_once, whose frame stays on the stack.
_start_human_turn(t) ==
    /\ pc[t] = "start_human"
    /\ current_turn < max_turns + TurnSlack
    /\ current_speaker' = "Human"
    /\ is_human_turn' = TRUE
    /\ human_response_received' = FALSE
    /\ current_turn' = current_turn + 1
    /\ pc' = [pc EXCEPT ![t] = "human_poll"]
    /\ loc' = [loc EXCEPT ![t] = [@ EXCEPT !.polls = 0,
                                           !.frames = IF kind = "phased" THEN @ + 1 ELSE @]]
    /\ UNCHANGED <<configVars, audio_call, marcus_instructions, alex_instructions, is_running, current_persona_index, is_speaking,
                   selected_next_speaker, conversation_history, phase, interviewVars,
                   pending_human_response, pending_human_audio, persona_chunks,
                   vibe_started, complete_notified, inputs_left, webVars, strm>>

GateWaits(t) ==
    ~human_response_received /\ loc[t].polls < MaxTimeoutPolls /\ is_running

\* One pass of the poll loop, lines 957-959.
HumanGatePoll(t) ==
    /\ pc[t] = "human_poll"
    /\ GateWaits(t)
    /\ scenario = "reliable" => loc[t].polls + 1 < MaxTimeoutPolls
    /\ loc' = [loc EXCEPT ![t] = [@ EXCEPT !.polls = @ + 1]]
    /\ UNCHANGED <<configVars, audio_call, marcus_instructions, alex_instructions, is_running, current_turn, current_persona_index,
                   current_speaker, is_speaking, is_human_turn, selected_next_speaker,
                   conversation_history, phase, interviewVars, humanVars, persona_chunks,
                   vibe_started, complete_notified, inputs_left, pc, webVars, strm>>

\* A gate whose timeout substitutes no text.
SilentTimeout == ""

\* The sentence of line 963.
FallbackUtterance == "timeout_fallback"

\* The loop's exit to the call of _move_to_next_persona, lines 961-992.
HumanGateFinish(t) ==
    /\ pc[t] = "human_poll"
    /\ ~GateWaits(t)
    /\ LET response == IF loc[t].polls >= MaxTimeoutPolls
                       THEN FallbackUtterance ELSE pending_human_response
       IN  /\ pending_human_response' = response
           /\ conversation_history' =
                  IF Truthy(response)
                  THEN Append(conversation_history, Entry("Human", response))
                  ELSE conversation_history
    /\ is_human_turn' = FALSE
    /\ current_speaker' = None
    /\ selected_next_speaker' = SequentialFallback(current_persona_index, personas)
    /\ pc' = [pc EXCEPT ![t] = "human_done"]
    /\ loc' = [loc EXCEPT ![t] = [@ EXCEPT !.polls = 0]]
    /\ UNCHANGED <<configVars, audio_call, marcus_instructions, alex_instructions, is_running, current_turn, current_persona_index,
                   is_speaking, phase, interviewVars, human_response_received,
                   pending_human_audio, persona_chunks, vibe_started, complete_notified,
                   inputs_left, webVars, strm>>

\* ------------------------------------------------------------------------
\* Calls from other threads: human input and the stop request
\* ------------------------------------------------------------------------
Transcriptions == {"answer", ""}

MayInput(answering) ==
    IF scenario = "reliable"
    THEN answering /\ pc["main"] = "human_poll" /\ ~human_response_received
    ELSE IF scenario \in {"cycle", "race"}
    THEN answering /\ inputs_left > 0
    ELSE inputs_left > 0

InputUsed == inputs_left' = IF scenario = "reliable" THEN inputs_left ELSE inputs_left - 1

add_human_response ==
    /\ \E transcription \in Transcriptions :
         /\ MayInput(transcription # "")
         /\ pending_human_response' = transcription
    /\ human_response_received' = TRUE
    /\ InputUsed
    /\ UNCHANGED <<configVars, audio_call, marcus_instructions, alex_instructions, is_running, current_turn, current_persona_index,
                   current_speaker, is_speaking, is_human_turn, selected_next_speaker,
                   conversation_history, phase, interviewVars, pending_human_audio,
                   persona_chunks, vibe_started, complete_notified, pc, loc, webVars, strm>>

\* add_human_audio when the call runs to its end before the engine's next
\* step.
add_human_audio ==
    /\ MayInput(TRUE)
    /\ pending_human_audio' = "audio"
    /\ human_response_received' = TRUE
    /\ pending_human_response' = "[Human spoke via microphone]"
    /\ InputUsed
    /\ UNCHANGED <<configVars, audio_call, marcus_instructions, alex_instructions, is_running, current_turn, current_persona_index,
                   current_speaker, is_speaking, is_human_turn, selected_next_speaker,
                   conversation_history, phase, interviewVars, persona_chunks,
                   vibe_started, complete_notified, pc, loc, webVars, strm>>

\* add_human_audio called on the web server's thread while the engine's
\* event loop runs on its own: the three assignments are separate steps.
\* Lines 1005-1006 store the payload and set the flag ...
add_human_audio_stores ==
    /\ audio_call = "none"
    /\ MayInput(TRUE)
    /\ pending_human_audio' = "audio"
    /\ human_response_received' = TRUE
    /\ audio_call' = "stored"
    /\ InputUsed
    /\ UNCHANGED <<configVars, marcus_instructions, alex_instructions, is_running, current_turn,
                   current_persona_index, current_speaker, is_speaking, is_human_turn,
                   selected_next_speaker, conversation_history, phase, interviewVars,
                   pending_human_response, persona_chunks, vibe_started,
                   complete_notified, pc, loc, webVars, strm>>

\* ... and line 1009 sets the text of the history entry.
add_human_audio_marks ==
    /\ audio_call = "stored"
    /\ pending_human_response' = "[Human spoke via microphone]"
    /\ audio_call' = "none"
    /\ UNCHANGED <<configVars, marcus_instructions, alex_instructions, is_running, current_turn,
                   current_persona_index, current_speaker, is_speaking, is_human_turn,
                   selected_next_speaker, conversation_history, phase, interviewVars,
                   human_response_received, pending_human_audio, persona_chunks,
                   vibe_started, complete_notified, inputs_left, pc, loc, webVars, strm>>

stop_conversation ==
    /\ scenario \in {"open", "ideation", "stop"}
    /\ scenario = "stop" \/ inputs_left > 0
    /\ is_running
    /\ is_running' = FALSE
    /\ inputs_left' = IF scenario = "stop" THEN inputs_left ELSE inputs_left - 1
    /\ UNCHANGED <<configVars, audio_call, marcus_instructions, alex_instructions, current_turn, current_persona_index, current_speaker,
                   is_speaking, is_human_turn, selected_next_speaker,
                   conversation_history, phase, interviewVars, humanVars, persona_chunks,
                   vibe_started, complete_notified, pc, loc, webVars, strm>>

\* ------------------------------------------------------------------------
\* The web layer's showcase handlers (examples/web_demo.py)
\* ------------------------------------------------------------------------
engineVars == <<is_running, current_turn, current_persona_index, current_speaker,
                is_speaking, is_human_turn, selected_next_speaker, conversation_history,
                phase, interviewVars, humanVars, persona_chunks, vibe_started,
                complete_notified, inputs_left>>

\* handle_website_working_perfectly, lines 1572-1576: the duplicate check.
\* The browser sends the event once the dev server of a vibe_code run is up.
WebsiteWorkingCheck(h) ==
    /\ hpc[h] = "idle"
    /\ vibe_started
    /\ hpc' = [hpc EXCEPT ![h] = IF website_showcased THEN "ignored" ELSE "passed"]
    /\ UNCHANGED <<configVars, audio_call, marcus_instructions, alex_instructions, engineVars, pc, loc, website_showcased, dpc, strm>>

\* lines 1676-1688: the orchestrator's state is "cleaned" for the showcase.
WebsiteWorkingClean(h) ==
    /\ hpc[h] = "passed"
    /\ selected_next_speaker' = None
    /\ is_speaking' = FALSE
    /\ phase' = "showcase"
    /\ hpc' = [hpc EXCEPT ![h] = "cleaned"]
    /\ UNCHANGED <<configVars, audio_call, marcus_instructions, alex_instructions, is_running, current_turn, current_persona_index,
                   current_speaker, is_human_turn, conversation_history, interviewVars,
                   humanVars, persona_chunks, vibe_started, complete_notified,
                   inputs_left, pc, loc, website_showcased, dpc, strm>>

\* lines 1745-1748: the activity test before the ten-second sleep.
WebsiteWorkingWait(h) ==
    /\ hpc[h] = "cleaned"
    /\ hpc' = [hpc EXCEPT ![h] = IF is_running THEN "stabilizing" ELSE "inactive"]
    /\ UNCHANGED <<configVars, audio_call, marcus_instructions, alex_instructions, engineVars, pc, loc, website_showcased, dpc, strm>>

\* lines 1751-1759 and handle_alex_showcase, lines 1482-1557: the
\* delayed_flag_set thread is started, then the flag is tested again and the
\* AlexShowcase thread is started.
WebsiteWorkingShowcase(h) ==
    /\ hpc[h] = "stabilizing"
    /\ dpc' = [dpc EXCEPT ![h] = "sleeping"]
    /\ IF website_showcased
       THEN /\ hpc' = [hpc EXCEPT ![h] = "discarded"]
            /\ UNCHANGED pc
       ELSE /\ hpc' = [hpc EXCEPT ![h] = "launched"]
            /\ pc' = [pc EXCEPT ![ShowcaseOf(h)] = "sc_sleeping"]
    /\ UNCHANGED <<configVars, audio_call, marcus_instructions, alex_instructions, engineVars, loc, website_showcased, strm>>

\* delayed_flag_set, lines 1752-1756, after its five-second sleep.
delayed_flag_set(h) ==
    /\ dpc[h] = "sleeping"
    /\ website_showcased' = TRUE
    /\ dpc' = [dpc EXCEPT ![h] = "done"]
    /\ UNCHANGED <<configVars, audio_call, marcus_instructions, alex_instructions, engineVars, pc, loc, hpc, strm>>

\* alex_showcase_speech, lines 1496-1541, after its one-second sleep, up to
\* its call of _start_persona_turn on a new event loop.
alex_showcase_speech(t) ==
    /\ pc[t] = "sc_sleeping"
    /\ IF is_running /\ _idx("Alex") >= 0
       THEN /\ alex_instructions' = "showcase"
            /\ selected_next_speaker' = None
            /\ current_persona_index' = _idx("Alex")
            /\ current_turn' = current_turn + 1
            /\ current_speaker' = "Alex"
            /\ is_speaking' = TRUE
            /\ pc' = [pc EXCEPT ![t] = "start_persona"]
       ELSE /\ pc' = [pc EXCEPT ![t] = "returned"]
            /\ UNCHANGED <<alex_instructions, selected_next_speaker, current_persona_index,
                           current_turn, current_speaker, is_speaking>>
    /\ UNCHANGED <<configVars, audio_call, marcus_instructions, is_running, is_human_turn,
                   conversation_history, phase,
                   interviewVars, humanVars, persona_chunks, vibe_started,
                   complete_notified, inputs_left, loc, webVars, strm>>


\* ------------------------------------------------------------------------
\* Configurations and specifications
\* ------------------------------------------------------------------------
ConstructAt(k, sc, mt, ph, ql, notes, inputs, cpi) ==
    /\ kind = k
    /\ scenario = sc
    /\ personas = IF k = "simple" THEN SimplePersonas ELSE PhasedPersonas
    /\ max_turns = mt
    /\ interview_questions = ql
    /\ is_running = FALSE
    /\ current_turn = 0
    /\ current_persona_index = cpi
    /\ current_speaker = None
    /\ is_speaking = FALSE
    /\ is_human_turn = FALSE
    /\ selected_next_speaker = None
    /\ conversation_history = <<>>
    /\ phase = ph
    /\ questions_left = ql
    /\ asked_questions = 0
    /\ interview_notes = notes
    /\ human_response_received = FALSE
    /\ pending_human_response = None
    /\ pending_human_audio = None
    /\ persona_chunks = [p \in {"Professor", "Student", "Assistant", "Marcus", "Sarah",
                                "Alex", "Jordan", "Maya", "Sophie"} |-> 0]
    /\ vibe_started = FALSE
    /\ complete_notified = 0
    /\ inputs_left = inputs
    /\ pc = [t \in Tasks |-> IF t = "main" THEN "idle" ELSE "absent"]
    /\ loc = [t \in Tasks |-> NoLoc]
    /\ website_showcased = FALSE
    /\ hpc = [h \in Handlers |-> "idle"]
    /\ dpc = [h \in Handlers |-> "absent"]
    /\ alex_instructions = "build"
    /\ marcus_instructions = "configured"
    /\ audio_call = "none"

\* The state after construction: the first persona is the current one.
Construct(k, sc, mt, ph, ql, notes, inputs) ==
    ConstructAt(k, sc, mt, ph, ql, notes, inputs, 0)

\* web_demo.py lines 1303-1320: the interview is skipped.
WebDemoNotes == <<"preset">>

\* ------------------------------------------------------------------------
\* One exchange, message by message
\* ------------------------------------------------------------------------
\* The messages a response stream is made of.
StreamAlphabet ==
    { Msg("text", None, 0, 0), Msg("audio", None, 0, 0), Msg("other", None, 0, 0),
      Msg("done", None, 0, 0), Msg("error", None, 0, 0),
      Msg("item_added", "vibe_code", 0, 0), Msg("item_added", "post_to_linkedin", 0, 0),
      Msg("item_added", "post_video_to_linkedin", 0, 0),
      Msg("item_added", "select_next_speaker", 0, 0),
      Msg("fc_done", "select_next_speaker", 1, 0),
      Msg("fc_done", "select_next_speaker", ArgEmpty, 0) }

RECURSIVE StreamsUpTo(_)
StreamsUpTo(k) ==
    IF k = 0 THEN {<<>>}
    ELSE LET shorter == StreamsUpTo(k - 1)
         IN  shorter \cup { Append(s, m) : s \in shorter, m \in StreamAlphabet }

\* One iteration of the async-for loop on the next message of the stream,
\* up to its end or to the `await marketer.process_turn(...)` of the
\* posting branches (lines 570 and 620), where the loop is suspended until
\* the posting workflow returns.
ReadMessage ==
    /\ strm.outcome = "reading"
    /\ strm.st.status = "reading"
    /\ strm.rest # <<>>
    /\ ~strm.awaiting
    /\ LET st2 == ProcessMessage(strm.st, Head(strm.rest), current_persona_index, personas)
       IN  strm' = [strm EXCEPT !.st = st2,
                                !.read = Append(@, Head(strm.rest)),
                                !.rest = Tail(@),
                                !.awaiting = \/ st2.li_posts > strm.st.li_posts
                                             \/ st2.vid_posts > strm.st.vid_posts]
    /\ UNCHANGED <<configVars, audio_call, marcus_instructions, alex_instructions, engineVars, pc, loc, webVars>>

\* marketer.process_turn returns or raises (lines 570-577 / 620-627): the
\* suspended iteration ends.
WorkflowCompletes ==
    /\ strm.outcome = "reading"
    /\ strm.awaiting
    /\ strm' = [strm EXCEPT !.awaiting = FALSE]
    /\ UNCHANGED <<configVars, audio_call, marcus_instructions, alex_instructions, engineVars, pc, loc, webVars>>

\* The loop is left: by break ("returned"), by the raise that line 669
\* catches ("greeting"); or it waits for a message that does not come.
LoopExit ==
    /\ strm.outcome = "reading"
    /\ ~strm.awaiting
    /\ strm.st.status # "reading" \/ strm.rest = <<>>
    /\ strm' = [strm EXCEPT !.outcome = IF strm.st.status = "done" THEN "returned"
                                        ELSE IF strm.st.status = "raised" THEN "greeting"
                                        ELSE "waiting"]
    /\ UNCHANGED <<configVars, audio_call, marcus_instructions, alex_instructions, engineVars, pc, loc, webVars>>

InitStream ==
    /\ Construct("phased", "stream", MaxTurnsBound, "ideation", 0, WebDemoNotes, 0)
    /\ \E s \in StreamsUpTo(MaxStreamLen) :
          strm = [st |-> StreamInit(FALSE), read |-> <<>>, rest |-> s, outcome |-> "reading",
                  awaiting |-> FALSE]

NextStream == ReadMessage \/ WorkflowCompletes \/ LoopExit

SpecStream == InitStream /\ [][NextStream]_vars

\* The stream loop on the events of select_next_speaker calls, for each
\* current persona of SimpleOrchestrator: completed calls with every kind of
\* arguments (an index from -1 to one past Human, empty, without
\* speaker_index, unparseable) and the two fragments of a streamed value
\* that selects the human, with and without the call's name on the event.
StreamedIndex == Len(SimplePersonas)

SelectAlphabet ==
    { Msg("text", None, 0, 0), Msg("done", None, 0, 0) }
    \cup { Msg("fc_done", "select_next_speaker", a, 0) :
              a \in {ArgEmpty, ArgNoKey, ArgBad} \cup ((0 - 1)..(Len(SimplePersonas) + 1)) }
    \cup { Msg("fc_delta", n, StreamedIndex, part) :
              n \in {None, "select_next_speaker"}, part \in 1..2 }

RECURSIVE StreamsOver(_, _)
StreamsOver(alphabet, k) ==
    IF k = 0 THEN {<<>>}
    ELSE LET shorter == StreamsOver(alphabet, k - 1)
         IN  shorter \cup { Append(s, m) : s \in shorter, m \in alphabet }

InitSelect ==
    /\ \E cpi \in 0..(Len(SimplePersonas) - 1) :
          ConstructAt("simple", "stream", MaxTurnsBound, None, 0, <<>>, 0, cpi)
    /\ \E s \in StreamsOver(SelectAlphabet, MaxSelectLen) :
          strm = [st |-> StreamInit(FALSE), read |-> <<>>, rest |-> s, outcome |-> "reading",
                  awaiting |-> FALSE]

NextSelect == ReadMessage \/ LoopExit

SpecSelect == InitSelect /\ [][NextSelect]_vars

\* SimpleOrchestrator and PhasedOrchestrator from its greeting, with a short
\* turn limit, in any environment.
Init ==
    /\ strm = NoExchange
    /\ \E mt \in 0..MaxTurnsBound :
          \/ Construct("simple", "open", mt, None, 0, <<>>, MaxInputs)
          \/ \E n \in 0..MaxQuestionsOpen :
                 Construct("phased", "open", mt, "greeting", n, <<>>, MaxInputs)

PersonaStep(t) ==
    \/ _start_persona_turn(t)
    \/ _get_persona_response(t)
    \/ ConnectionCloses(t)
    \/ _move_to_next_persona(t)

HumanStep(t) ==
    \/ _start_human_turn(t)
    \/ HumanGatePoll(t)
    \/ HumanGateFinish(t)

Next ==
    \/ start_conversation_async
    \/ PersonaStep("main")
    \/ HumanStep("main")
    \/ add_human_response
    \/ add_human_audio
    \/ stop_conversation

Spec == Init /\ [][Next]_vars

\* The web demo's configuration: the script from ideation_prep on, responses
\* without audio fragments, the stop request the only call from outside.
InitIdeation ==
    /\ strm = NoExchange
    /\ \E mt \in 0..(MaxTurnsBound + 2) :
          Construct("phased", "ideation", mt, "ideation_prep", 0, WebDemoNotes, 1)

NextIdeation ==
    \/ start_conversation_async
    \/ PersonaStep("main")
    \/ _handle_persona_error("main")
    \/ stop_conversation

SpecIdeation == InitIdeation /\ [][NextIdeation]_vars

\* The same script when every exchange delivers its done or error signal and
\* nothing else happens: no stop request, no connection closed early.
InitProgress ==
    /\ strm = NoExchange
    /\ \E mt \in 0..(MaxTurnsBound + 2) :
          Construct("phased", "delivered", mt, "ideation_prep", 0, WebDemoNotes, 0)

NextProgress ==
    \/ start_conversation_async
    \/ _start_persona_turn("main")
    \/ _get_persona_response("main")
    \/ _move_to_next_persona("main")
    \/ _handle_persona_error("main")

SpecProgress == InitProgress /\ [][NextProgress]_vars

\* PhasedOrchestrator from its greeting with interview_questions = n, every
\* exchange succeeding and the human answering each time; the turn limit
\* leaves room for the interview and the hand-over to ideation.
InterviewTurns(n) == 2 * n + 4

InitInterview ==
    /\ strm = NoExchange
    /\ \E n \in 0..(QuestionListLen + ExtraQuestions) :
          Construct("phased", "reliable", InterviewTurns(n), "greeting", n, <<>>, 0)

NextInterview ==
    \/ start_conversation_async
    \/ _start_persona_turn("main")
    \/ _get_persona_response("main")
    \/ _move_to_next_persona("main")
    \/ HumanStep("main")
    \/ add_human_response
    \/ add_human_audio

SpecInterview == InitInterview /\ [][NextInterview]_vars

\* Both orchestrators with exchanges that succeed (text, response.done, no
\* audio fragments) and a human who answers, by text or audio, at any time
\* or not at all.
InitGate ==
    /\ strm = NoExchange
    /\ \/ Construct("simple", "gate", MaxTurnsBound + 2, None, 0, <<>>, MaxInputs)
       \/ Construct("phased", "gate", MaxTurnsBound + 2, "greeting", 1, <<>>, MaxInputs)

NextGate ==
    \/ start_conversation_async
    \/ _start_persona_turn("main")
    \/ _get_persona_response("main")
    \/ _move_to_next_persona("main")
    \/ HumanStep("main")
    \/ add_human_response
    \/ add_human_audio

SpecGate == InitGate /\ [][NextGate]_vars

\* Persona turns under every outcome of the exchange (text or none, audio
\* fragments or none, failures, streams that end early) when no persona
\* hands over to the human; a human audio payload may be stored at any time.
InitTurns ==
    /\ strm = NoExchange
    /\ \/ Construct("simple", "turns", MaxTurnsBound, None, 0, <<>>, MaxInputs)
       \/ Construct("phased", "turns", MaxTurnsBound, "ideation_prep", 0,
                    WebDemoNotes, MaxInputs)

NextTurns ==
    \/ start_conversation_async
    \/ PersonaStep("main")
    \/ add_human_audio

SpecTurns == InitTurns /\ [][NextTurns]_vars

\* SimpleOrchestrator as simple_example.py runs it, for every turn limit up
\* to its 6: each exchange ends with response.done and selects the next
\* participant of [personas..., Human]; the human answers or lets the gate
\* time out.
CycleTurns == MaxTurnsBound + 4

InitCycle ==
    /\ strm = NoExchange
    /\ \E mt \in 1..CycleTurns :
          Construct("simple", "cycle", mt, None, 0, <<>>, MaxInputs)

NextCycle ==
    \/ start_conversation_async
    \/ _start_persona_turn("main")
    \/ _get_persona_response("main")
    \/ _move_to_next_persona("main")
    \/ HumanStep("main")
    \/ add_human_response

SpecCycle == InitCycle /\ [][NextCycle]_vars

\* SimpleOrchestrator with exchanges that succeed and a human whose inputs,
\* text or audio, arrive from the web server's thread at any moment of the
\* gate's polling.
InitRace ==
    /\ strm = NoExchange
    /\ Construct("simple", "race", MaxTurnsBound + 2, None, 0, <<>>, MaxInputs + 1)

NextRace ==
    \/ start_conversation_async
    \/ _start_persona_turn("main")
    \/ _get_persona_response("main")
    \/ _move_to_next_persona("main")
    \/ HumanStep("main")
    \/ add_human_response
    \/ add_human_audio_stores
    \/ add_human_audio_marks

SpecRace == InitRace /\ [][NextRace]_vars

\* The same conversations with a stop request at any moment; inputs_left
\* counts the human inputs alone.
InitStop ==
    /\ strm = NoExchange
    /\ \/ Construct("simple", "stop", MaxTurnsBound + 2, None, 0, <<>>, MaxInputs)
       \/ Construct("phased", "stop", MaxTurnsBound + 2, "greeting", 1, <<>>, MaxInputs)

NextStop == NextGate \/ stop_conversation

SpecStop == InitStop /\ [][NextStop]_vars

\* The web demo: the turn loop on its thread, two website_working_perfectly
\* events handled on theirs, and the showcase turns they start.
InitWeb ==
    /\ strm = NoExchange
    /\ Construct("phased", "web", MaxTurnsBound + 5, "ideation_prep", 0, WebDemoNotes, 0)

NextWeb ==
    \/ start_conversation_async
    \/ \E t \in Tasks : PersonaStep(t)
    \/ \E h \in Handlers :
          \/ WebsiteWorkingCheck(h)
          \/ WebsiteWorkingClean(h)
          \/ WebsiteWorkingWait(h)
          \/ WebsiteWorkingShowcase(h)
          \/ delayed_flag_set(h)
          \/ alex_showcase_speech(ShowcaseOf(h))

SpecWeb == InitWeb /\ [][NextWeb]_vars

\* ------------------------------------------------------------------------
\* Properties
\* ------------------------------------------------------------------------
\* A turn of task t is in progress: its exchange is running, its entry is
\* appended and its audio wait runs, or the human gate is open.
TurnInProgress(t) == pc[t] \in {"exchange", "blocked", "audio_wait", "human_poll"}

\* The step is the resolution step of a finished turn of the main task.
MoveStep == pc["main"] \in MovePcs /\ pc'["main"] # pc["main"]

\* C1: current_turn never decreases and never exceeds max_turns: no persona
\* turn and no human turn begins when current_turn >= max_turns.
C1_TurnCounterBounded ==
    [][current_turn' >= current_turn /\ current_turn' <= max_turns]_vars

\* C2: the engine ends the conversation only with current_turn = max_turns or
\* phase = complete, and once either holds no further turn is counted.
C2_EndsAtLimitOrComplete ==
    [][ /\ complete_notified' > 0 => (current_turn' = max_turns \/ phase' = "complete")
        /\ (is_running /\ (current_turn = max_turns \/ phase = "complete"))
              => current_turn' = current_turn ]_vars

\* C3: forward progress: while the conversation runs and every exchange
\* delivers its done or error signal, the turn loop always has a next step.
C3_NoStuckState == is_running => ENABLED NextProgress

\* C4: the stream loop ends at the first done message and raises at the first
\* error message, whatever came before; no message after it is processed.
C4_LoopEndsAtTerminal ==
    \A i \in 1..Len(strm.read) :
        strm.read[i].t \in {"done", "error"} =>
            /\ i = Len(strm.read)
            /\ strm.st.status = IF strm.read[i].t = "done" THEN "done" ELSE "raised"

\* C5: turns are strictly sequential: at most one turn is in progress at any
\* time, also when the web handlers start the showcase turn.
C5_OneTurnAtATime == Cardinality({ t \in Tasks : TurnInProgress(t) }) <= 1

\* C6: of two website_working_perfectly events handled concurrently at most
\* one starts a showcase; the other is discarded.
C6_OneShowcase == Cardinality({ h \in Handlers : hpc[h] = "launched" }) <= 1

C8_AlexEndsConversation ==
    [][ (MoveStep /\ phase = "ideation" /\ PersonaAt(current_persona_index) = "Alex")
           => /\ phase' = "complete"
              /\ ~is_running'
              /\ complete_notified' = complete_notified + 1
              /\ pc'["main"] = "returned" ]_vars

\* The speaker sequence of an interview of n questions.
RECURSIVE InterviewPairs(_)
InterviewPairs(n) == IF n = 0 THEN <<>> ELSE <<"Sarah", "Human">> \o InterviewPairs(n - 1)

InterviewScript(n) ==
    <<"Marcus">> \o InterviewPairs(n) \o <<"Sarah", "Marcus", ideation_order[1]>>

\* C9: from the greeting with interview_questions = N, exchanges succeeding and
\* the human answering, the speakers are Marcus, (Sarah, Human) N times, Sarah,
\* Marcus, then the first of the ideation order.
C9_InterviewScript ==
    \A i \in 1..Len(conversation_history) :
        i <= Len(InterviewScript(interview_questions)) =>
            conversation_history[i].speaker = InterviewScript(interview_questions)[i]

\* C10: questions_left changes only when a human answer is resolved, then by
\* exactly -1; it is never negative; the interview turns to farewell exactly
\* when it is 0.
C10_QuestionCounter ==
    [][ /\ questions_left' >= 0
        /\ questions_left' # questions_left
              => (pc["main"] = "human_done" /\ questions_left' = questions_left - 1)
        /\ (phase = "interview" /\ phase' = "farewell") => questions_left' = 0 ]_vars

\* A persona turn or a human turn starts in this step: the step of
\* _start_persona_turn or _start_human_turn that increments current_turn and
\* enters the exchange or the gate.
PersonaTurnStarts(t) == pc[t] = "start_persona" /\ pc'[t] = "exchange"

HumanTurnStarts(t) == pc[t] = "start_human" /\ pc'[t] = "human_poll"

TurnStarts == \E t \in Tasks : PersonaTurnStarts(t) \/ HumanTurnStarts(t)

\* C13: while a turn is in progress exactly one of is_speaking and
\* is_human_turn is true; in particular they are never both true, also after
\* the interview hand-off from the interviewer's turn into the human turn.
C13_SpeakingXorHumanTurn ==
    /\ ~(is_speaking /\ is_human_turn)
    /\ TurnInProgress("main") => (is_speaking # is_human_turn)

\* C14: a stored selection is cleared by the resolution step that follows
\* the turn that wrote it, so every persona turn starts with
\* selected_next_speaker empty.
C14_SelectionClearedBeforeTurn ==
    [][(\E t \in Tasks : PersonaTurnStarts(t)) => selected_next_speaker = None]_vars

\* C15: in every reachable state selected_next_speaker is empty, the name of
\* a configured persona, or "Human", whoever stored it: an explicit
\* selection, a fallback or a phase rule.
C15_SelectionDomain ==
    selected_next_speaker \in
        {None, "Human"} \cup { personas[i] : i \in 1..Len(personas) }

\* A turn whose stream selected the human has stored its selection and waits
\* for its audio.
C15_Witness ==
    /\ pc["main"] = "audio_wait"
    /\ selected_next_speaker = "Human"
    /\ conversation_history # <<>>

\* The human gate has reached its ceiling and no response has arrived.
GateTimedOut ==
    /\ pc["main"] = "human_poll"
    /\ ~human_response_received
    /\ loc["main"].polls >= MaxTimeoutPolls

MainSteps == pc'["main"] # pc["main"] \/ loc'["main"] # loc["main"]

\* C20: without a human response the gate polls at most MaxTimeoutPolls
\* times (30 s at 0.5 s), then appends one entry of speaker Human with a
\* non-empty fallback text, ends the human turn and resolves the next
\* speaker, whose turn starts unless the turn limit ends the conversation:
\* the gate and the step after it can always move.
C20_HumanTimeoutContinues ==
    /\ [](pc["main"] = "human_poll" =>
            /\ loc["main"].polls <= MaxTimeoutPolls
            /\ ENABLED (HumanGatePoll("main") \/ HumanGateFinish("main")))
    /\ [](pc["main"] = "human_done" => ENABLED _move_to_next_persona("main"))
    /\ [][(GateTimedOut /\ MainSteps) =>
            /\ pc'["main"] = "human_done"
            /\ conversation_history' =
                   Append(conversation_history, Entry("Human", FallbackUtterance))
            /\ Last(conversation_history').text # ""
            /\ ~is_human_turn']_vars
    /\ [][(pc["main"] = "human_done" /\ MainSteps) =>
            pc'["main"] \in {"start_persona", "start_human"}]_vars
    /\ [][(pc["main"] = "start_persona" /\ MainSteps /\ is_running /\ ~TurnLimitReached) =>
            (pc'["main"] = "exchange" /\ current_turn' = current_turn + 1)]_vars

\* The turn after a timed-out human turn is in its exchange.
C20_Witness ==
    /\ pc["main"] = "exchange"
    /\ conversation_history # <<>>
    /\ Last(conversation_history) = Entry("Human", FallbackUtterance)

\* C12: phase complete is terminal: once phase = "complete" the phase never
\* changes again, current_turn stays fixed and no persona or human turn
\* starts.
C12_CompleteIsTerminal ==
    [][phase = "complete" =>
          (phase' = "complete" /\ current_turn' = current_turn /\ ~TurnStarts)]_vars

\* C16: current_turn changes only in the step that starts a persona or
\* human turn, and there by exactly 1: every turn, the showcase turn
\* included, counts once.
C16_OneIncrementPerTurn ==
    [][/\ TurnStarts => current_turn' = current_turn + 1
       /\ ~TurnStarts => current_turn' = current_turn]_vars

\* The speakers of the history entries after the first entry of Alex's
\* showcase presentation (<<>> when there is none yet).
RECURSIVE AfterShowcase(_)
AfterShowcase(h) ==
    IF h = <<>> THEN <<>>
    ELSE IF Head(h) = Entry("Alex", "showcase")
    THEN [k \in 1..(Len(h) - 1) |-> h[k + 1].speaker]
    ELSE AfterShowcase(Tail(h))

ShowcaseScript == <<"Marcus", "Sophie", "Marcus">>

ShowcaseSpoken == \E k \in 1..Len(conversation_history) :
                     conversation_history[k] = Entry("Alex", "showcase")

\* C11: once Alex has completed the showcase turn the following speakers are
\* exactly Marcus, Sophie, Marcus, whatever the turns select, and after the
\* third of them the phase is complete and the conversation has ended.
C11_ShowcaseOrder ==
    ShowcaseSpoken =>
        LET after == AfterShowcase(conversation_history)
        IN  /\ Len(after) <= Len(ShowcaseScript)
            /\ \A k \in 1..Len(after) : after[k] = ShowcaseScript[k]
            /\ Len(after) = Len(ShowcaseScript) => phase \in {"closing", "complete"}

\* The position in the messages read of the last completed
\* select_next_speaker call, 0 when there is none.
LastSelect(read) ==
    LET S == { k \in 1..Len(read) :
                 read[k].t = "fc_done" /\ read[k].n = "select_next_speaker" }
    IN  IF S = {} THEN 0 ELSE CHOOSE k \in S : \A j \in S : j <= k

ValidIndex(a) == a >= 0 /\ a <= Len(personas)

\* The i-th element (0-based) of [personas..., Human].
ListedSpeaker(i) == IF i = Len(personas) THEN "Human" ELSE personas[i + 1]

Successor == personas[((current_persona_index + 1) % Len(personas)) + 1]

IsFragment(m) == m.t = "fc_delta"

\* C17: when the last completed select_next_speaker call of a turn has
\* well-formed arguments with 0 <= speaker_index <= number of personas, the
\* decoded selection, and the selection stored when the stream loop ends, is
\* the speaker_index-th element of [personas..., Human], for every current
\* persona.
C17_ValidIndexSelects ==
    LET k == LastSelect(strm.read)
    IN  (k > 0 /\ ValidIndex(strm.read[k].a)) =>
            /\ strm.st.sel = ListedSpeaker(strm.read[k].a)
            /\ strm.outcome = "returned" =>
                   StoredSelection(strm.st, current_persona_index)
                       = ListedSpeaker(strm.read[k].a)

\* The last persona is the current one, the call selected the human, and the
\* loop has ended at response.done.
C17_Witness ==
    /\ strm.outcome = "returned"
    /\ current_persona_index = Len(personas) - 1
    /\ LastSelect(strm.read) > 0
    /\ strm.read[LastSelect(strm.read)].a = Len(personas)
    /\ StoredSelection(strm.st, current_persona_index) = "Human"

\* C18: when the stream loop ends without a valid selection (no completed
\* select_next_speaker call, or a last call whose arguments are unparseable,
\* lack speaker_index, are empty with nothing streamed, or give an index out
\* of range) the stored selection is the persona after the current one, with
\* wrap-around and never Human; the loop does not raise.
C18_FallbackIsSuccessor ==
    LET k == LastSelect(strm.read)
        a == strm.read[k].a
        invalid == \/ k = 0
                   \/ /\ k > 0
                      /\ \/ a \in {ArgNoKey, ArgBad}
                         \/ a # ArgEmpty /\ ~ValidIndex(a)
                         \/ a = ArgEmpty /\ SelectSeq(SubSeq(strm.read, 1, k - 1), IsFragment) = <<>>
    IN  invalid =>
            /\ strm.st.status # "raised"
            /\ strm.outcome # "greeting"
            /\ strm.outcome = "returned" =>
                   /\ StoredSelection(strm.st, current_persona_index) = Successor
                   /\ StoredSelection(strm.st, current_persona_index) # "Human"

\* The last persona is the current one, the call's index is one past Human,
\* and the stored selection wraps around to the first persona.
C18_Witness ==
    /\ strm.outcome = "returned"
    /\ current_persona_index = Len(personas) - 1
    /\ LastSelect(strm.read) > 0
    /\ strm.read[LastSelect(strm.read)].a = Len(personas) + 1
    /\ StoredSelection(strm.st, current_persona_index) = personas[1]

\* C19: when a select_next_speaker call completes with empty arguments and
\* the fragments streamed before it, from the first one, form a value with a
\* valid index, the selection is the participant that value names.
C19_StreamedArgumentsUsed ==
    LET k == LastSelect(strm.read)
        frags == SelectSeq(SubSeq(strm.read, 1, k - 1), IsFragment)
    IN  ( /\ k > 0
          /\ k = Len(strm.read)
          /\ strm.read[k].a = ArgEmpty
          /\ Len(frags) = 2
          /\ frags[1].p = 1 /\ frags[2].p = 2
          /\ frags[1].a = frags[2].a
          /\ ValidIndex(frags[1].a) ) =>
            strm.st.sel = ListedSpeaker(frags[1].a)

\* The step in which the human gate leaves its poll loop and appends.
GateExits == pc["main"] = "human_poll" /\ pc'["main"] = "human_done"

\* C21: when a human response was received during the polling window of a
\* human turn, at any poll up to the last one, the entry appended for that
\* turn carries the received response and not the fallback text.
C21_ReceivedResponseKept ==
    [][(GateExits /\ human_response_received /\ Truthy(pending_human_response)) =>
          conversation_history' =
              Append(conversation_history, Entry("Human", pending_human_response))]_vars

\* The history entries a human turn appended with a supplied utterance.
SuppliedEntries ==
    { k \in 1..Len(conversation_history) :
        /\ conversation_history[k].speaker = "Human"
        /\ conversation_history[k].text # FallbackUtterance }

\* C22: the pending human-response slot is consumed once: the history never
\* holds more entries with a supplied utterance than utterances were supplied
\* through add_human_response and add_human_audio, so a human turn without
\* new input does not append an earlier utterance again.
C22_UtteranceAppendedOnce ==
    Cardinality(SuppliedEntries) <= MaxInputs - inputs_left

\* C25: after stop_conversation the exchange of the turn in flight completes
\* and its entry is appended, and then no further persona or human turn
\* starts and current_turn does not increase, whoever is resolved as the
\* next speaker.
C25_NoTurnAfterStop ==
    [][~is_running =>
          /\ ~TurnStarts
          /\ current_turn' = current_turn
          /\ (pc["main"] = "exchange" /\ pc'["main"] = "audio_wait") =>
                 /\ Len(conversation_history') = Len(conversation_history) + 1
                 /\ Last(conversation_history').speaker = loc["main"].persona]_vars

\* C26: when the channel fails during a persona's turn (no connection, or an
\* error event in the stream) the entry appended for the turn is the
\* error-marked sentinel of that persona.
C26_FailureLeavesSentinel ==
    (pc["main"] = "audio_wait" /\ loc["main"].failed) =>
        Last(conversation_history) = Entry(loc["main"].persona, "error")

\* C29: a side-effect workflow (vibe_code, post_to_linkedin,
\* post_video_to_linkedin) triggered by a turn does not block it: while the
\* stream has unread messages the loop can read the next one, whether or not
\* the workflow has completed.
C29_WorkflowDoesNotBlock ==
    (strm.outcome = "reading" /\ strm.st.status = "reading" /\ strm.rest # <<>>) =>
        ENABLED ReadMessage

\* The turn re-issues its exchange / appends its entry in this step.
RetryStep ==
    pc["main"] = "exchange" /\ pc'["main"] = "exchange" /\ loc'["main"] # loc["main"]

AppendStep == pc["main"] \in {"exchange", "blocked"} /\ pc'["main"] = "audio_wait"

\* C27: a persona turn re-issues an exchange that produced neither text nor
\* audio at most MaxRetries times; a retry leaves current_turn and the
\* history alone; the turn then appends exactly one entry, whose text is the
\* non-empty fallback only when no attempt is left (SimpleOrchestrator) and
\* the last attempt gave no audio, and which is never blank without audio.
C27_BoundedRetry ==
    [][LET p == loc["main"].persona
       IN  /\ pc["main"] = "exchange" => loc["main"].retry <= MaxRetries
           /\ RetryStep =>
                 /\ loc["main"].retry < MaxRetries
                 /\ loc'["main"].retry = loc["main"].retry + 1
                 /\ persona_chunks'[p] = 0
                 /\ current_turn' = current_turn
                 /\ conversation_history' = conversation_history
           /\ AppendStep =>
                 /\ Len(conversation_history') = Len(conversation_history) + 1
                 /\ SubSeq(conversation_history', 1, Len(conversation_history))
                        = conversation_history
                 /\ Last(conversation_history').speaker = p
                 /\ current_turn' = current_turn
                 /\ (kind = "simple" /\ Last(conversation_history').text = "fallback") =>
                        (loc["main"].retry = MaxRetries /\ persona_chunks'[p] = 0)
                 /\ persona_chunks'[p] = 0 => Last(conversation_history').text # ""]_vars

\* A turn of SimpleOrchestrator whose three exchanges were all empty has
\* appended the fallback utterance.
C27_Witness ==
    /\ kind = "simple"
    /\ pc["main"] = "audio_wait"
    /\ loc["main"].retry = MaxRetries
    /\ Last(conversation_history) = Entry(loc["main"].persona, "fallback")

\* C30: the wait at the end of every persona turn is
\* chunks * chunk_duration_ms + safety_buffer_ms for the tracker's count of
\* that persona: non-decreasing in the count, the buffer alone when the
\* count is 0, and never skipped (never 0).
C30_AudioWait ==
    pc["main"] = "audio_wait" =>
        LET chunks == persona_chunks[loc["main"].persona]
        IN  /\ loc["main"].wait_ms = chunks * 430 + 1000
            /\ loc["main"].wait_ms > 0
            /\ chunks = 0 => loc["main"].wait_ms = safety_buffer_ms
            /\ \A fewer \in 0..chunks : WaitMs(fewer) <= loc["main"].wait_ms

\* A turn with audio fragments is in its wait, longer than the buffer.
C30_Witness ==
    /\ pc["main"] = "audio_wait"
    /\ persona_chunks[loc["main"].persona] > 0
    /\ loc["main"].wait_ms > safety_buffer_ms

\* The turn's exchange runs in this step: it returns, retries or blocks.
ExchangeStep ==
    /\ pc["main"] = "exchange"
    /\ pc'["main"] # "exchange" \/ loc'["main"] # loc["main"]

RECURSIVE LastPersonaSpeaker(_)
LastPersonaSpeaker(h) ==
    IF h = <<>> THEN None
    ELSE IF Last(h).speaker # "Human" THEN Last(h).speaker
    ELSE LastPersonaSpeaker(SubSeq(h, 1, Len(h) - 1))

\* C24: in SimpleOrchestrator, during a human turn current_persona_index is
\* the persona that spoke just before it; the turn's end stores that
\* persona's successor (with wrap-around) whatever selection was left, and
\* the resolution step after it starts a turn of exactly that persona.
C24_SuccessorAfterHuman ==
    [][kind = "simple" =>
          /\ pc["main"] = "human_poll" =>
                 PersonaAt(current_persona_index) = LastPersonaSpeaker(conversation_history)
          /\ GateExits =>
                 /\ selected_next_speaker' = Successor
                 /\ selected_next_speaker' # "Human"
          /\ (pc["main"] = "human_done" /\ MainSteps) =>
                 /\ pc'["main"] = "start_persona"
                 /\ current_persona_index' = (current_persona_index + 1) % Len(personas)
                 /\ selected_next_speaker' = None]_vars

\* The last persona spoke, the human had a turn, and the first persona's
\* turn is in its exchange.
C24_Witness ==
    /\ kind = "simple"
    /\ pc["main"] = "exchange"
    /\ Len(conversation_history) >= 2
    /\ Last(conversation_history).speaker = "Human"
    /\ conversation_history[Len(conversation_history) - 1].speaker
           = personas[Len(personas)]
    /\ current_speaker = personas[1]

\* An exception of a turn was caught and _handle_persona_error has appended
\* its sentinel entry.
FailureHandled ==
    \E i \in 1..Len(conversation_history) : conversation_history[i].text = "error"

\* C28: no failure of a turn leaves start_conversation_async, and after a
\* failure was handled the running conversation always has a next step
\* towards its end.
C28_FailuresRecoveredInLoop ==
    /\ pc["main"] # "raised_out"
    /\ (FailureHandled /\ is_running) => ENABLED NextProgress

\* C31: the chunk count read at the end of a persona's turn is the number of
\* fragments streamed during that turn, so the wait that follows is computed
\* from that number, also when the exchange failed before any fragment.
C31_ChunkCountOfTurn ==
    pc["main"] = "audio_wait" => loc["main"].wait_ms = WaitMs(loc["main"].streamed)

\* C32: in SimpleOrchestrator where every persona selects the next
\* participant of [personas..., Human], the speaker of the k-th history
\* entry is participant (k-1) mod (n+1), and the conversation ends with
\* exactly max_turns entries.
C32_RoundRobinTranscript ==
    /\ \A k \in 1..Len(conversation_history) :
           conversation_history[k].speaker =
               Participants(personas)[((k - 1) % (Len(personas) + 1)) + 1]
    /\ pc["main"] = "returned" => Len(conversation_history) = max_turns

\* A turn of Marcus starts, and whether an override was issued for it: by the
\* turn's own start after Maya, or by the resolution step just before it.
MarcusTurnStarts ==
    /\ pc["main"] = "start_persona"
    /\ pc'["main"] = "exchange"
    /\ loc'["main"].persona = "Marcus"

OverrideIssuedForTurn ==
    \/ OverrideAfterMaya("Marcus")
    \/ /\ conversation_history # <<>>
       /\ \/ phase = "showcase" /\ Last(conversation_history).speaker = "Alex"
          \/ phase = "closing" /\ Last(conversation_history).speaker = "Sophie"

\* C33: a directive override lasts for one turn: a turn of Marcus for which
\* no override was issued sends the configured instructions.
C33_OverrideLastsOneTurn ==
    [][(MarcusTurnStarts /\ ~OverrideIssuedForTurn)
          => marcus_instructions' = "configured"]_vars

\* A turn has just completed: its resolution step is the next one.
TurnCompleted == pc["main"] \in MovePcs

\* C34: the history is append-only, and every persona or human turn appends
\* exactly one entry: when a turn has just completed, the history is as long
\* as the number of turns counted.
C34_OneEntryPerTurn ==
    [][/\ Len(conversation_history') >= Len(conversation_history)
       /\ SubSeq(conversation_history', 1, Len(conversation_history)) = conversation_history
       /\ TurnCompleted' => Len(conversation_history') = current_turn']_vars

\* The function calls of a tool the loop has read so far (one
\* output_item.added event per call).
CallsOf(tool) ==
    Cardinality({ i \in 1..Len(strm.read) :
                    strm.read[i].t = "item_added" /\ strm.read[i].n = tool })

\* C35: one vibe_code, post_to_linkedin or post_video_to_linkedin call
\* starts its workflow at most once, whatever messages follow it in the
\* turn.
C35_WorkflowAtMostOncePerCall ==
    /\ strm.st.vibe_starts <= CallsOf("vibe_code")
    /\ strm.st.li_posts <= CallsOf("post_to_linkedin")
    /\ strm.st.vid_posts <= CallsOf("post_video_to_linkedin")

\* C36: calculate_wait_time(persona) is the wait the engine makes at the end
\* of that persona's turn, chunks * chunk_duration_ms + safety_buffer_ms, and
\* the buffer for a persona without tracked chunks.
C36_CalculatedWaitIsEngineWait ==
    pc["main"] = "audio_wait" =>
        LET chunks == persona_chunks[loc["main"].persona]
        IN  /\ calculate_wait_time(chunks) = loc["main"].wait_ms
            /\ calculate_wait_time(chunks) = chunks * chunk_duration_ms + safety_buffer_ms
            /\ chunks = 0 => calculate_wait_time(chunks) = safety_buffer_ms

\* C37: the resolution step that ends a human turn never starts another
\* human turn, whatever the human supplied.
C37_NoHumanAfterHuman ==
    [][(pc["main"] = "human_done" /\ pc'["main"] # "human_done")
          => pc'["main"] # "start_human"]_vars

\* The texts of the human's entries in the history, in order.
IsHumanEntry(e) == e.speaker = "Human"
HumanAnswers ==
    LET answers == SelectSeq(conversation_history, IsHumanEntry)
    IN  [i \in 1..Len(answers) |-> answers[i].text]

\* C38: every human answer of the interview is in interview_notes, in
\* order, before the next persona turn starts; so they all are when Marcus's
\* ideation_prep turn builds its summary.
C38_NotesBeforeNextTurn ==
    [][(kind = "phased" /\ PersonaTurnStarts("main")) => interview_notes = HumanAnswers]_vars

\* C39: when the gate finds human_response_received set (before its
\* timeout), pending_human_response already holds the text of the input
\* that set it, and the entry appended for the turn is that text.
C39_ResponseTextBeforeFlag ==
    [][(GateExits /\ human_response_received /\ ~GateTimedOut) =>
          /\ audio_call = "none"
          /\ Len(conversation_history') = Len(conversation_history) + 1
          /\ Last(conversation_history').speaker = "Human"]_vars

\* C40: once the conversation is no longer running and the chain of turns
\* has returned, nobody is marked as speaking.
C40_IdleAfterEnd ==
    (pc["main"] = "returned" /\ ~is_running) =>
        /\ ~is_speaking
        /\ ~is_human_turn
        /\ current_speaker = None


====
